---- MODULE Spec2Model ----
(***************************************************************************)
(* CLIP (clipv): positional parsing protocol (clip_core/src/parser.rs and *)
(* the code generated by clip_derive/src/try_parse.rs, from_str.rs) and   *)
(* the argument description tree (clip_core/src/describe/arg.rs).          *)
(*                                                                         *)
(* Strings are sequences of one-character strings, so that to_lowercase,  *)
(* str::parse and the formatters are computed character by character.     *)
(***************************************************************************)
EXTENDS Integers, Sequences, FiniteSets, TLC

VARIABLES
    ty,        \* the type T whose derived TryParse implementation is called
    args,      \* the token sequence handed to try_parse / parse
    pc,        \* "ready", then "try_parsed" or "parsed"
    outcome,   \* what the call returned
    stack,     \* the Args constructed so far (describe/arg.rs), oldest first
    shown,     \* the last text rendered
    formatter, \* the Formatter in use (describe/formatter.rs)
    contents,  \* what format_function returned for each item handed to fmt
    command    \* the Command being described (describe/command.rs)

vars == <<ty, args, pc, outcome, stack, shown, formatter, contents, command>>

(***************************************************************************)
(* Bounds of the model.                                                    *)
(***************************************************************************)
\* longest token sequence handed to a parser
MaxArgs == 4
\* most Args (nodes of argument trees) and Commands alive at a time
MaxNodes == 4
\* most items handed to Formatter::fmt
MaxItems == 3
\* longest name of a Value
MaxName == 9

(***************************************************************************)
(* Characters and primitive conversions.                                   *)
(***************************************************************************)
Upper == <<"A","B","C","D","E","F","G","H","I","J","K","L","M",
           "N","O","P","Q","R","S","T","U","V","W","X","Y","Z">>
Lower == <<"a","b","c","d","e","f","g","h","i","j","k","l","m",
           "n","o","p","q","r","s","t","u","v","w","x","y","z">>
DigitChars == <<"0","1","2","3","4","5","6","7","8","9">>

\* the lowercase letter of every ASCII uppercase letter
LowerOf == [c \in {Upper[i] : i \in 1..Len(Upper)} |->
               Lower[CHOOSE i \in 1..Len(Upper) : Upper[i] = c]]

\* char::to_lowercase on the ASCII range
ToLowerChar(c) == IF c \in DOMAIN LowerOf THEN LowerOf[c] ELSE c

\* str::to_lowercase
to_lowercase(s) == [i \in 1..Len(s) |-> ToLowerChar(s[i])]

IsDigit(c) == \E i \in 1..Len(DigitChars) : DigitChars[i] = c
DigitValue(c) == (CHOOSE i \in 1..Len(DigitChars) : DigitChars[i] = c) - 1

\* largest value of a u8
U8Max == 255

RECURSIVE DigitsValue(_, _)
\* accumulate decimal digits left to right; -1 once the value overflows u8
DigitsValue(s, acc) ==
    IF s = <<>> THEN acc
    ELSE LET next == acc * 10 + DigitValue(Head(s))
         IN IF next > U8Max THEN -1 ELSE DigitsValue(Tail(s), next)

\* <u8 as FromStr>::from_str: an optional '+', then one or more decimal
\* digits whose value fits in 8 bits
U8FromStr(s) ==
    LET digits == IF s # <<>> /\ Head(s) = "+" THEN Tail(s) ELSE s
    IN IF digits = <<>> \/ \E i \in 1..Len(digits) : ~IsDigit(digits[i])
       THEN [ok |-> FALSE, value |-> [none |-> "u8"]]
       ELSE LET n == DigitsValue(digits, 0)
            IN IF n < 0 THEN [ok |-> FALSE, value |-> [none |-> "u8"]]
               ELSE [ok |-> TRUE, value |-> [u8 |-> n]]

\* <String as FromStr>::from_str never fails
StringFromStr(s) == [ok |-> TRUE, value |-> [string |-> s]]

(***************************************************************************)
(* The type declarations the derive macros are applied to.  A declaration  *)
(* is what the macros read from the syn AST: struct or enum, the variant   *)
(* identifiers, and for every field its type and whether it carries the   *)
(* #[try_parse] attribute.  A struct is one constructor named after the    *)
(* type.                                                                   *)
(***************************************************************************)
\* struct Empty;  (tests/try_parse.rs)
EmptyDecl ==
    [kind |-> "struct", variants |-> <<
           [ident |-> <<"E","m","p","t","y">>,
            fields |-> <<>>]>>]

\* struct Leaf { a: u8, b: String }
LeafDecl ==
    [kind |-> "struct", variants |-> <<
           [ident |-> <<"L","e","a","f">>,
            fields |-> <<[ident |-> "a", ty |-> "u8", try_parse |-> FALSE], [ident |-> "b", ty |-> "String", try_parse |-> FALSE]>>]>>]

\* #[derive(FromStr)] enum Unit { One, Two, Three }
UnitDecl ==
    [kind |-> "enum", variants |-> <<
           [ident |-> <<"O","n","e">>,
            fields |-> <<>>],
           [ident |-> <<"T","w","o">>,
            fields |-> <<>>],
           [ident |-> <<"T","h","r","e","e">>,
            fields |-> <<>>]>>]

\* enum Command { Tuple(u8, #[try_parse] Leaf), Struct { unit: Unit, other: u8 }, Unit }
CommandDecl ==
    [kind |-> "enum", variants |-> <<
           [ident |-> <<"T","u","p","l","e">>,
            fields |-> <<[ident |-> "0", ty |-> "u8", try_parse |-> FALSE], [ident |-> "1", ty |-> "Leaf", try_parse |-> TRUE]>>],
           [ident |-> <<"S","t","r","u","c","t">>,
            fields |-> <<[ident |-> "unit", ty |-> "Unit", try_parse |-> FALSE], [ident |-> "other", ty |-> "u8", try_parse |-> FALSE]>>],
           [ident |-> <<"U","n","i","t">>,
            fields |-> <<>>]>>]

\* struct Parent { #[try_parse] parent_arg: Leaf, #[try_parse] command: Command }
ParentDecl ==
    [kind |-> "struct", variants |-> <<
           [ident |-> <<"P","a","r","e","n","t">>,
            fields |-> <<[ident |-> "parent_arg", ty |-> "Leaf", try_parse |-> TRUE], [ident |-> "command", ty |-> "Command", try_parse |-> TRUE]>>]>>]

\* enum Number { One, Two, Three }  (tests/parse.rs; Tata in the TryParse doc example)
NumberDecl ==
    [kind |-> "enum", variants |-> <<
           [ident |-> <<"O","n","e">>,
            fields |-> <<>>],
           [ident |-> <<"T","w","o">>,
            fields |-> <<>>],
           [ident |-> <<"T","h","r","e","e">>,
            fields |-> <<>>]>>]

\* enum Color { Red, Blue, Black, Yellow }
ColorDecl ==
    [kind |-> "enum", variants |-> <<
           [ident |-> <<"R","e","d">>,
            fields |-> <<>>],
           [ident |-> <<"B","l","u","e">>,
            fields |-> <<>>],
           [ident |-> <<"B","l","a","c","k">>,
            fields |-> <<>>],
           [ident |-> <<"Y","e","l","l","o","w">>,
            fields |-> <<>>]>>]

\* struct Example { #[try_parse] number: Number, #[try_parse] color: Color }
ExampleDecl ==
    [kind |-> "struct", variants |-> <<
           [ident |-> <<"E","x","a","m","p","l","e">>,
            fields |-> <<[ident |-> "number", ty |-> "Number", try_parse |-> TRUE], [ident |-> "color", ty |-> "Color", try_parse |-> TRUE]>>]>>]

\* struct Toto { #[try_parse] tata: Tata, titi: u8 }  (doc example of the TryParse derive)
TotoDecl ==
    [kind |-> "struct", variants |-> <<
           [ident |-> <<"T","o","t","o">>,
            fields |-> <<[ident |-> "tata", ty |-> "Number", try_parse |-> TRUE], [ident |-> "titi", ty |-> "u8", try_parse |-> FALSE]>>]>>]

\* an enum whose variant delegates to another enum: enum Nested { Tuple(#[try_parse] Number, u8), Unit }
NestedDecl ==
    [kind |-> "enum", variants |-> <<
           [ident |-> <<"T","u","p","l","e">>,
            fields |-> <<[ident |-> "0", ty |-> "Number", try_parse |-> TRUE], [ident |-> "1", ty |-> "u8", try_parse |-> FALSE]>>],
           [ident |-> <<"U","n","i","t">>,
            fields |-> <<>>]>>]

\* struct Toto { titi: String, tata: u8, toto: u8 }  (the struct section of
\* the TryParse derive's documentation)
TotoPositionalDecl ==
    [kind |-> "struct", variants |-> <<
           [ident |-> <<"T","o","t","o">>,
            fields |-> <<[ident |-> "titi", ty |-> "String", try_parse |-> FALSE], [ident |-> "tata", ty |-> "u8", try_parse |-> FALSE], [ident |-> "toto", ty |-> "u8", try_parse |-> FALSE]>>]>>]

\* the types with a derived TryParse implementation
TryParseTypes == {"Empty", "Leaf", "Command", "Parent", "Number", "Color",
                  "Example", "Toto", "TotoPositional", "Nested"}

\* the declaration of a named type
Decl(t) ==
    CASE t = "Empty" -> EmptyDecl
      [] t = "Leaf" -> LeafDecl
      [] t = "Unit" -> UnitDecl
      [] t = "Command" -> CommandDecl
      [] t = "Parent" -> ParentDecl
      [] t = "Number" -> NumberDecl
      [] t = "Color" -> ColorDecl
      [] t = "Example" -> ExampleDecl
      [] t = "Toto" -> TotoDecl
      [] t = "TotoPositional" -> TotoPositionalDecl
      [] t = "Nested" -> NestedDecl

\* the words a caller passes as tokens: a number that fits a u8, one that
\* does not, and variant names in the case the tests write them in
Tokens == {<<"7">>,
           <<"3","0","0">>,
           <<"O","n","e">>,
           <<"t","w","o">>,
           <<"t","u","p","l","e">>,
           <<"s","t","r","u","c","t">>,
           <<"u","n","i","t">>,
           <<"B","l","a","c","k">>}

(***************************************************************************)
(* Results.  Ok(Parsed(value, rest)) is [err |-> "Ok", value, rest]; an    *)
(* Err(e) carries neither a value nor an iterator.  log is bookkeeping: the*)
(* tokens that values.next() handed out during the call, in order.         *)
(***************************************************************************)
NoValue == [none |-> "value"]

Parsed(value, rest, log) ==
    [err |-> "Ok", value |-> value, rest |-> rest, log |-> log]

Err(e, log) ==
    [err |-> e, value |-> NoValue, rest |-> <<>>, log |-> log]

\* the first n elements of q, and the ones after them
Prefix(q, n) == SubSeq(q, 1, n)
Suffix(q, n) == SubSeq(q, n + 1, Len(q))

\* Iterator::next on the remaining tokens
IterNext(values) ==
    IF values = <<>>
    THEN [some |-> FALSE, item |-> <<>>, rest |-> <<>>]
    ELSE [some |-> TRUE, item |-> Head(values), rest |-> Tail(values)]

\* least index of a non-empty set of indices (the first matching match arm)
FirstOf(S) == CHOOSE i \in S : \A j \in S : i <= j

\* the value of a constructor applied to its parsed fields
Construct(t, ident, fieldValues) ==
    [ty |-> t, ident |-> ident, fields |-> fieldValues]

\* #[derive(FromStr)] matching the identifiers as they are declared
from_str_CaseSensitive(t, value) ==
    LET variants == Decl(t).variants
        arms == {i \in 1..Len(variants) : variants[i].ident = value}
    IN IF arms = {}
       THEN [ok |-> FALSE, value |-> [none |-> t]]
       ELSE [ok |-> TRUE,
             value |-> Construct(t, variants[FirstOf(arms)].ident, <<>>)]

(***************************************************************************)
(* #[derive(FromStr)]: match value.to_lowercase() against the lowercased  *)
(* identifier of every (unit) variant, in declaration order.               *)
(***************************************************************************)
from_str(t, value) ==
    LET variants == Decl(t).variants
        arms == {i \in 1..Len(variants) :
                    to_lowercase(variants[i].ident) = to_lowercase(value)}
    IN IF arms = {}
       THEN [ok |-> FALSE, value |-> [none |-> t]]
       ELSE [ok |-> TRUE,
             value |-> Construct(t, variants[FirstOf(arms)].ident, <<>>)]

\* value.parse::<ty>() for the type of a field without #[try_parse]
str_parse(fieldTy, value) ==
    CASE fieldTy = "u8" -> U8FromStr(value)
      [] fieldTy = "String" -> StringFromStr(value)
      [] OTHER -> from_str(fieldTy, value)

(***************************************************************************)
(* #[derive(TryParse)]: the code the macro generates.                      *)
(***************************************************************************)
RECURSIVE try_parse(_, _)
RECURSIVE impl_fields(_, _)

\* .or(Err(BadType)) on the conversion c of the token n handed out
or_bad_type(c, n) ==
    IF c.ok THEN Parsed(c.value, n.rest, <<n.item>>)
    ELSE Err("BadType", <<n.item>>)

\* map_or with the end of the stream reported as a bad token
map_or_EndIsBadType(n, fieldTy) ==
    IF ~n.some THEN Err("BadType", <<>>)
    ELSE or_bad_type(str_parse(fieldTy, n.item), n)

\* .map_or(Err(TooFewArguments), |value| value.parse::<ty>().or(Err(BadType)))
\* on n, what values.next() returned
map_or(n, fieldTy) ==
    IF ~n.some THEN Err("TooFewArguments", <<>>)
    ELSE or_bad_type(str_parse(fieldTy, n.item), n)

\* a field without #[try_parse]:
\*   values.next().map_or(Err(TooFewArguments),
\*                        |value| value.parse::<ty>().or(Err(BadType)))?
primitive_field(fieldTy, values) == map_or(IterNext(values), fieldTy)

\* adopt_rest without `values = rest`: the next field starts where the
\* delegated one started
adopt_rest_KeepsIterator(r, values) ==
    IF r.err # "Ok" THEN Err(r.err, r.log)
    ELSE Parsed(r.value, values, r.log)

\* let Parsed(value, rest) = r?; values = rest; value
adopt_rest(r, values) ==
    IF r.err # "Ok" THEN Err(r.err, r.log)
    ELSE Parsed(r.value, r.rest, r.log)

\* a field with #[try_parse]:
\*   { let Parsed(value, rest) = ty::try_parse(values)?; values = rest; value }
delegated_field(fieldTy, values) ==
    adopt_rest(try_parse(fieldTy, values), values)

\* the initialiser the macro emits for one field
field_initialiser(f, values) ==
    IF f.try_parse THEN delegated_field(f.ty, values)
    ELSE primitive_field(f.ty, values)

\* the value of the fields parsed so far, followed by the later ones
fields_after(first, others) ==
    IF others.err # "Ok" THEN Err(others.err, first.log \o others.log)
    ELSE Parsed(<<first.value>> \o others.value, others.rest,
                first.log \o others.log)

\* the later fields' error if they fail, else the first field's
last_error(first, others) ==
    IF others.err # "Ok" THEN Err(others.err, first.log \o others.log)
    ELSE IF first.err # "Ok" THEN Err(first.err, first.log \o others.log)
    ELSE Parsed(<<first.value>> \o others.value, others.rest,
                first.log \o others.log)

\* then_fields going on after a failed field and returning the last error
then_fields_LastError(first, laterFields, values) ==
    last_error(first, impl_fields(laterFields, Suffix(values, Len(first.log))))

\* then_fields initialising the later fields from the same tokens as the
\* first one
then_fields_SameTokens(first, laterFields, values) ==
    IF first.err # "Ok" THEN Err(first.err, first.log)
    ELSE fields_after(first, impl_fields(laterFields, values))

\* the `?` after a field initialiser: its error ends try_parse, otherwise
\* the later fields are initialised from what it left
then_fields(first, laterFields, values) ==
    IF first.err # "Ok" THEN Err(first.err, first.log)
    ELSE fields_after(first, impl_fields(laterFields, first.rest))

\* the field initialisers, evaluated in declaration order
impl_fields(fields, values) ==
    IF fields = <<>> THEN Parsed(<<>>, values, <<>>)
    ELSE then_fields(field_initialiser(Head(fields), values), Tail(fields), values)

\* #ident { #fields } / #ident ( #fields ) around the parsed fields r
construct_from(t, ident, r) ==
    IF r.err # "Ok" THEN Err(r.err, r.log)
    ELSE Parsed(Construct(t, ident, r.value), r.rest, r.log)

\* the initialisation with a unit struct or variant taking one token
impl_object_initialisation_UnitTakesToken(t, variant, values) ==
    IF variant.fields = <<>>
    THEN IF values = <<>> THEN Err("TooFewArguments", <<>>)
         ELSE Parsed(Construct(t, variant.ident, <<>>), Tail(values), <<Head(values)>>)
    ELSE construct_from(t, variant.ident, impl_fields(variant.fields, values))

\* initialisation of a struct or of the selected variant: a unit one takes
\* no token, the others their fields
impl_object_initialisation(t, variant, values) ==
    IF variant.fields = <<>>
    THEN Parsed(Construct(t, variant.ident, <<>>), values, <<>>)
    ELSE construct_from(t, variant.ident, impl_fields(variant.fields, values))

\* the selected arm's result r, after the keyword token
after_keyword(item, r) ==
    IF r.err # "Ok" THEN Err(r.err, <<item>> \o r.log)
    ELSE Parsed(r.value, r.rest, <<item>> \o r.log)

\* match keyword { "<lowercased ident>" => Ok(Parent::<initialisation>), ...
\*                 _ => Err(VariantNotFound) }?
\* arms are the indices of the arms whose pattern equals the keyword
match_arms(t, variants, n, arms) ==
    IF arms = {} THEN Err("VariantNotFound", <<n.item>>)
    ELSE after_keyword(
             n.item,
             impl_object_initialisation(t, variants[FirstOf(arms)], n.rest))

\* match_keyword comparing the keyword as written
match_keyword_CaseSensitive(t, variants, n) ==
    IF ~n.some THEN Err("TooFewArguments", <<>>)
    ELSE match_arms(t, variants, n,
                    {i \in 1..Len(variants) :
                        to_lowercase(variants[i].ident) = n.item})

\* let keyword = values.next().ok_or(TooFewArguments)?;
\* match keyword.to_lowercase().as_str() { ... }
match_keyword(t, variants, n) ==
    IF ~n.some THEN Err("TooFewArguments", <<>>)
    ELSE match_arms(t, variants, n,
                    {i \in 1..Len(variants) :
                        to_lowercase(variants[i].ident) = to_lowercase(n.item)})

\* initialisation of an enum
impl_enum_initialization(t, variants, values) ==
    match_keyword(t, variants, IterNext(values))

\* impl TryParse for T: Ok(Parsed((#parser), values))
try_parse(t, values) ==
    IF Decl(t).kind = "struct"
    THEN impl_object_initialisation(t, Decl(t).variants[1], values)
    ELSE impl_enum_initialization(t, Decl(t).variants, values)

(***************************************************************************)
(* clip_core/src/parser.rs                                                  *)
(***************************************************************************)
\* the caller's continuation, FnOnce(T) -> R
Callback(value) == [callback_of |-> value]

\* the match of parse without the check of the remainder
parse_match_KeepsLeftovers(r) ==
    IF r.err = "Ok"
    THEN [err |-> "Ok", value |-> Callback(r.value), calls |-> <<r.value>>]
    ELSE [err |-> r.err, value |-> NoValue, calls |-> <<>>]

\* match r { Ok(Parsed(parsed, mut rest)) => if rest.next().is_some() {
\*     Err(TooManyArguments) } else { Ok(callback(parsed)) },
\*     Err(err) => Err(err) }
\* calls lists the values the callback was invoked with
parse_match(r) ==
    IF r.err = "Ok"
    THEN IF IterNext(r.rest).some
         THEN [err |-> "TooManyArguments", value |-> NoValue, calls |-> <<>>]
         ELSE [err |-> "Ok", value |-> Callback(r.value), calls |-> <<r.value>>]
    ELSE [err |-> r.err, value |-> NoValue, calls |-> <<>>]

\* parse::<T, R>(args, callback)
parse(t, values) == parse_match(try_parse(t, values))

(***************************************************************************)
(* Shapes of types and tokens.                                             *)
(***************************************************************************)
\* two strings are equal up to the case of their letters
EqIgnoreCase(a, b) ==
    /\ Len(a) = Len(b)
    /\ \A i \in 1..Len(a) : ToLowerChar(a[i]) = ToLowerChar(b[i])

\* the variants of enum t whose name the token matches, as indices
MatchingVariants(t, token) ==
    {i \in 1..Len(Decl(t).variants) : EqIgnoreCase(Decl(t).variants[i].ident, token)}

IsStruct(t) == Decl(t).kind = "struct"
IsEnum(t) == Decl(t).kind = "enum"

\* every field of struct t is parsed from one primitive token
AllPrimitive(t) ==
    \A i \in 1..Len(Decl(t).variants[1].fields) :
        ~Decl(t).variants[1].fields[i].try_parse


RECURSIVE ReachableTypes(_)
\* the types t delegates to through a #[try_parse] field
DelegatedTypes(t) ==
    UNION {{Decl(t).variants[i].fields[j].ty :
                j \in {k \in 1..Len(Decl(t).variants[i].fields) :
                           Decl(t).variants[i].fields[k].try_parse}} :
           i \in 1..Len(Decl(t).variants)}

\* the types reached from those of S through #[try_parse] fields
ReachableTypes(S) ==
    LET step == S \cup UNION {DelegatedTypes(t) : t \in S}
    IN IF step = S THEN S ELSE ReachableTypes(step)

\* the types of the primitive-token fields reached from t
PrimitiveFieldTypes(t) ==
    {u \in {"u8", "String", "Unit"} :
        \E r \in ReachableTypes({t}) :
        \E i \in 1..Len(Decl(r).variants) :
        \E j \in 1..Len(Decl(r).variants[i].fields) :
            /\ Decl(r).variants[i].fields[j].ty = u
            /\ ~Decl(r).variants[i].fields[j].try_parse}


\* a word made of decimal digits
IsNumberWord(w) == w # <<>> /\ \A i \in 1..Len(w) : IsDigit(w[i])

\* the tokens that mean something to type t: the numbers, and the names of
\* the variants of the enums a parse of t can reach.  Every other word is,
\* to t, neither a number nor a variant name, as "300" is to a u8 and a
\* number is to an enum.
Vocabulary(t) ==
    {w \in Tokens :
        \/ IsNumberWord(w)
        \/ \E e \in ReachableTypes({t}) \cup (PrimitiveFieldTypes(t) \ {"u8", "String"}) :
               IsEnum(e) /\ MatchingVariants(e, w) # {}}

(***************************************************************************)
(* The parsing state machine: a caller picks a type and a token sequence   *)
(* and calls T::try_parse or parse::<T, _>.                                *)
(***************************************************************************)
RECURSIVE SeqsUpTo(_, _)
\* the sequences over S of length at most n
SeqsUpTo(S, n) ==
    IF n = 0 THEN {<<>>}
    ELSE LET shorter == SeqsUpTo(S, n - 1)
         IN shorter \cup {Append(q, x) : q \in shorter, x \in S}

Idle == [err |-> "Idle"]

Init ==
    /\ ty \in TryParseTypes
    /\ args \in SeqsUpTo(Vocabulary(ty), MaxArgs)
    /\ pc = "ready"
    /\ outcome = Idle
    /\ stack = <<>>
    /\ shown = Idle
    /\ formatter = Idle
    /\ contents = <<>>
    /\ command = Idle

CallTryParse ==
    /\ pc = "ready"
    /\ outcome' = try_parse(ty, args)
    /\ pc' = "try_parsed"
    /\ UNCHANGED <<ty, args, stack, shown, formatter, contents, command>>

CallParse ==
    /\ pc = "ready"
    /\ outcome' = parse(ty, args)
    /\ pc' = "parsed"
    /\ UNCHANGED <<ty, args, stack, shown, formatter, contents, command>>

Next ==
    \/ CallTryParse
    \/ CallParse

Spec == Init /\ [][Next]_vars


(***************************************************************************)
(* clip_core/src/describe/formatter.rs                                      *)
(***************************************************************************)
\* Option<T>: None, or Some(x)
None == <<>>
Some(x) == <<x>>
unwrap_or(option, default) == IF option = None THEN default ELSE option[1]

\* Formatter::default()
Formatter_default ==
    [very_start |-> None, very_end |-> None, start |-> None, end |-> None,
     middle |-> None, new_line_chars |-> None]

\* a line without the "\r" of its "\r\n" ending
strip_cr(line) ==
    IF line # <<>> /\ line[Len(line)] = "\r" THEN Prefix(line, Len(line) - 1)
    ELSE line

RECURSIVE lines_from(_, _, _)
\* str::lines, with cur the line being read and acc the lines read: lines
\* end at "\n" (or "\r\n"); a last line without ending counts unless empty
lines_from(string, cur, acc) ==
    IF string = <<>> THEN (IF cur = <<>> THEN acc ELSE Append(acc, cur))
    ELSE IF Head(string) = "\n"
         THEN lines_from(Tail(string), <<>>, Append(acc, strip_cr(cur)))
         ELSE lines_from(Tail(string), Append(cur, Head(string)), acc)

\* str::lines
lines(string) == lines_from(string, <<>>, <<>>)

RECURSIVE push_lines(_, _, _)
\* for line in lines { result.push_str(format!("{chars}{line}\n")) }
push_lines(result, lineSeq, chars) ==
    IF lineSeq = <<>> THEN result
    ELSE push_lines(result \o chars \o Head(lineSeq) \o <<"\n">>, Tail(lineSeq), chars)

\* start_with: chars in front of every line
start_with(string, chars) == push_lines(<<>>, lines(string), chars)

\* the first line as it is, chars in front of the other lines
first_then_others(lineSeq, chars) ==
    IF lineSeq = <<>> THEN <<>>
    ELSE push_lines(Head(lineSeq) \o <<"\n">>, Tail(lineSeq), chars)

\* start_other_lines_with
start_other_lines_with(string, chars) == first_then_others(lines(string), chars)

\* the closure of the fold in Formatter::fmt
fold_step(self, string, item) ==
    string
    \o (IF string = <<>> THEN <<>> ELSE unwrap_or(self.middle, <<>>))
    \o unwrap_or(self.start, <<>>)
    \o (IF self.new_line_chars # None
        THEN start_other_lines_with(item, self.new_line_chars[1])
        ELSE item)
    \o unwrap_or(self.end, <<>>)

RECURSIVE filter_map_fold_NoneAsEmpty(_, _, _)
\* filter_map_fold with a skipped item folded in as an empty content
filter_map_fold_NoneAsEmpty(self, rendered, string) ==
    IF rendered = <<>> THEN string
    ELSE filter_map_fold_NoneAsEmpty(self, Tail(rendered),
                                     fold_step(self, string,
                                               IF Head(rendered) = None THEN <<>>
                                               ELSE Head(rendered)[1]))

RECURSIVE filter_map_fold(_, _, _)
\* args.filter_map(format_function).fold(string, ...) over the results of
\* format_function
filter_map_fold(self, rendered, string) ==
    IF rendered = <<>> THEN string
    ELSE IF Head(rendered) = None
         THEN filter_map_fold(self, Tail(rendered), string)
         ELSE filter_map_fold(self, Tail(rendered),
                              fold_step(self, string, Head(rendered)[1]))

\* Formatter::fmt that returns nothing at all when no item is rendered
Formatter_fmt_BareWhenEmpty(self, rendered) ==
    IF \A i \in 1..Len(rendered) : rendered[i] = None THEN <<>>
    ELSE unwrap_or(self.very_start, <<>>)
         \o filter_map_fold(self, rendered, <<>>)
         \o unwrap_or(self.very_end, <<>>)

\* Formatter::fmt; rendered[i] is format_function(args[i])
Formatter_fmt(self, rendered) ==
    unwrap_or(self.very_start, <<>>)
    \o filter_map_fold(self, rendered, <<>>)
    \o unwrap_or(self.very_end, <<>>)

(***************************************************************************)
(* clip_core/src/describe/value.rs                                          *)
(***************************************************************************)
\* the minimum width of a name in front of its description ("{:8}")
NameWidth == 8

RECURSIVE pad_right_SeparatingSpace(_, _)
\* pad_right with a space after a string that fills the width
pad_right_SeparatingSpace(string, width) ==
    IF Len(string) >= width THEN Append(string, " ")
    ELSE pad_right_SeparatingSpace(Append(string, " "), width)

RECURSIVE pad_right(_, _)
\* "{:width}" of a string: spaces after it up to the width
pad_right(string, width) ==
    IF Len(string) >= width THEN string
    ELSE pad_right(Append(string, " "), width)

\* impl Display for Value, "{}"
Value_fmt(value) == value.name

\* what stands for a panic in a text: it is no character
Panicked == "panic"

\* Option::unwrap: the value, or a panic
unwrap(option) == IF option = None THEN <<Panicked>> ELSE option[1]

\* impl Display for Value, "{:#}", without the is_some() test
Value_fmt_alternate_UnwrapsUnguarded(value) ==
    pad_right(value.name, NameWidth) \o unwrap(value.description)

\* impl Display for Value, "{:#}"
Value_fmt_alternate(value) ==
    IF value.description # None
    THEN pad_right(value.name, NameWidth) \o unwrap(value.description)
    ELSE value.name

(***************************************************************************)
(* clip_core/src/describe/arg.rs                                            *)
(***************************************************************************)
RECURSIVE reduce_max_KeepsSmaller(_, _)
\* the reduction with the comparison the other way round
reduce_max_KeepsSmaller(argSeq, acc) ==
    IF argSeq = <<>> THEN acc
    ELSE reduce_max_KeepsSmaller(Tail(argSeq),
                                 IF acc < Head(argSeq).max_depth THEN acc
                                 ELSE Head(argSeq).max_depth)

RECURSIVE reduce_max(_, _)
\* .reduce(|a, b| if a > b { a } else { b }) over the max_depth of the
\* Args after the first, acc being the value reduced so far
reduce_max(argSeq, acc) ==
    IF argSeq = <<>> THEN acc
    ELSE reduce_max(Tail(argSeq),
                    IF acc > Head(argSeq).max_depth THEN acc
                    ELSE Head(argSeq).max_depth)

\* ArgTree::max_depth with an empty container counted as 0
ArgTree_max_depth_EmptyIsZero(argSeq) ==
    IF argSeq = <<>> THEN 0
    ELSE reduce_max(Tail(argSeq), Head(argSeq).max_depth)

\* ArgTree::max_depth that looks at the first contained Arg only
ArgTree_max_depth_FirstOnly(argSeq) ==
    IF argSeq = <<>> THEN 1 ELSE Head(argSeq).max_depth

\* ArgTree::max_depth: the largest max_depth of the contained Args,
\* .unwrap_or(1)
ArgTree_max_depth(argSeq) ==
    IF argSeq = <<>> THEN 1
    ELSE reduce_max(Tail(argSeq), Head(argSeq).max_depth)

\* ArgType::Value, ArgType::Choices(Choices(args)), ArgType::Group(ArgGroup(args))
ArgType(kind, argSeq) == [kind |-> kind, args |-> argSeq]

\* with_type_depth with a level added for a Group as well
with_type_depth_GroupAddsLevel(type) ==
    IF type.kind = "Value" THEN 1 ELSE ArgTree_max_depth(type.args) + 1

\* let max_depth = match &type { ... }
with_type_depth(type) ==
    IF type.kind = "Choices" THEN ArgTree_max_depth(type.args) + 1
    ELSE IF type.kind = "Group" THEN ArgTree_max_depth(type.args)
    ELSE 1

\* Arg::with_type
Arg_with_type(name, description, type) ==
    [value |-> [name |-> name, description |-> description],
     type |-> type,
     max_depth |-> with_type_depth(type)]

\* Arg::new
Arg_new(name, description) ==
    [value |-> [name |-> name, description |-> description],
     type |-> ArgType("Value", <<>>),
     max_depth |-> 1]

\* the summary Formatter of ArgGroup with a line break between the items
ArgGroup_summary_formatter_LinePerItem ==
    [Formatter_default EXCEPT !.middle = Some(<<"\n">>),
                              !.start = Some(<<"<">>),
                              !.end = Some(<<">">>)]

\* impl SummaryFormatter for ArgGroup
ArgGroup_summary_formatter ==
    [Formatter_default EXCEPT !.middle = Some(<<" ">>),
                              !.start = Some(<<"<">>),
                              !.end = Some(<<">">>)]

\* impl SummaryFormatter for Choices
Choices_summary_formatter ==
    [Formatter_default EXCEPT !.very_start = Some(<<"<">>),
                              !.very_end = Some(<<">">>),
                              !.middle = Some(<<"|">>)]

\* impl DetailsFormatter for ArgGroup (the default)
ArgGroup_details_formatter == Formatter_default

\* the details Formatter of Choices without the continuation indent
Choices_details_formatter_NoIndent ==
    [Formatter_default EXCEPT !.start = Some(<<"-", " ">>)]

\* impl DetailsFormatter for Choices
Choices_details_formatter ==
    [Formatter_default EXCEPT !.start = Some(<<"-", " ">>),
                              !.new_line_chars = Some(<<" ", " ">>)]

RECURSIVE Arg_summarize(_)
RECURSIVE Arg_details(_)

\* |arg: &Arg| Some(arg.summarize()) on every contained Arg
summaries(argSeq) == [i \in 1..Len(argSeq) |-> Some(Arg_summarize(argSeq[i]))]

\* |arg: &Arg| Some(arg.details()) on every contained Arg
all_details(argSeq) == [i \in 1..Len(argSeq) |-> Some(Arg_details(argSeq[i]))]

\* ArgSummarize::summarize for ArgGroup
ArgGroup_summarize(argSeq) ==
    Formatter_fmt(ArgGroup_summary_formatter, summaries(argSeq))

\* ArgSummarize::summarize for Choices
Choices_summarize(argSeq) ==
    Formatter_fmt(Choices_summary_formatter, summaries(argSeq))

\* ArgDetails::details for ArgGroup
ArgGroup_details(argSeq) ==
    Formatter_fmt(ArgGroup_details_formatter, all_details(argSeq))

\* ArgDetails::details for Choices
Choices_details(argSeq) ==
    Formatter_fmt(Choices_details_formatter, all_details(argSeq))

\* Arg::summarize with the bare name up to a max_depth of 3
Arg_summarize_CollapsesDeeper(arg) ==
    IF arg.type.kind = "Value" THEN arg.value.name
    ELSE IF arg.type.kind = "Choices" /\ arg.max_depth <= 3 THEN arg.value.name
    ELSE IF arg.type.kind = "Choices" THEN Choices_summarize(arg.type.args)
    ELSE ArgGroup_summarize(arg.type.args)

\* Arg::summarize with the guard of the Choices arm on the Group arm too
Arg_summarize_GroupCollapses(arg) ==
    IF arg.type.kind = "Value" THEN arg.value.name
    ELSE IF arg.max_depth <= 2 THEN arg.value.name
    ELSE IF arg.type.kind = "Choices" THEN Choices_summarize(arg.type.args)
    ELSE ArgGroup_summarize(arg.type.args)

\* Arg::summarize
Arg_summarize(arg) ==
    IF arg.type.kind = "Value" THEN arg.value.name
    ELSE IF arg.type.kind = "Choices" /\ arg.max_depth <= 2 THEN arg.value.name
    ELSE IF arg.type.kind = "Choices" THEN Choices_summarize(arg.type.args)
    ELSE ArgGroup_summarize(arg.type.args)

\* Arg::details without the indent of the nested list
Arg_details_ListNotIndented(arg) ==
    IF arg.type.kind = "Value" THEN Value_fmt_alternate(arg.value) \o <<"\n">>
    ELSE IF arg.type.kind = "Choices" /\ arg.max_depth <= 2
         THEN Value_fmt_alternate(arg.value) \o <<"\n">>
              \o Choices_details(arg.type.args)
    ELSE IF arg.type.kind = "Choices" THEN Choices_details(arg.type.args)
    ELSE ArgGroup_details(arg.type.args)

\* Arg::details with a header line for a Group too
Arg_details_GroupHeader(arg) ==
    IF arg.type.kind = "Value" THEN Value_fmt_alternate(arg.value) \o <<"\n">>
    ELSE IF arg.type.kind = "Choices" /\ arg.max_depth <= 2
         THEN Value_fmt_alternate(arg.value) \o <<"\n">>
              \o start_with(Choices_details(arg.type.args), <<" ", " ">>)
    ELSE IF arg.type.kind = "Choices" THEN Choices_details(arg.type.args)
    ELSE Value_fmt_alternate(arg.value) \o <<"\n">>
         \o ArgGroup_details(arg.type.args)

\* Arg::details
Arg_details(arg) ==
    IF arg.type.kind = "Value" THEN Value_fmt_alternate(arg.value) \o <<"\n">>
    ELSE IF arg.type.kind = "Choices" /\ arg.max_depth <= 2
         THEN Value_fmt_alternate(arg.value) \o <<"\n">>
              \o start_with(Choices_details(arg.type.args), <<" ", " ">>)
    ELSE IF arg.type.kind = "Choices" THEN Choices_details(arg.type.args)
    ELSE ArgGroup_details(arg.type.args)

(***************************************************************************)
(* The description state machine: Args are built bottom-up, the newest     *)
(* ones becoming the children of the next composite; then the newest Arg  *)
(* or its container is rendered once (pc goes from "describe" to          *)
(* "displayed").                                                           *)
(***************************************************************************)
\* the names and descriptions given to Args: one without a description,
\* one with
Labels == {[name |-> <<"a">>, description |-> None],
           [name |-> <<"b","c">>, description |-> Some(<<"d">>)]}

RECURSIVE NodeCount(_)
\* the Args in a sequence of trees
NodeCount(argSeq) ==
    IF argSeq = <<>> THEN 0
    ELSE 1 + NodeCount(Head(argSeq).type.args) + NodeCount(Tail(argSeq))

InitArg ==
    /\ ty = "Empty"
    /\ args = <<>>
    /\ pc = "describe"
    /\ outcome = Idle
    /\ stack = <<>>
    /\ shown = Idle
    /\ formatter = Idle
    /\ contents = <<>>
    /\ command = Idle

\* Arg::new(name, description)
New ==
    /\ pc = "describe"
    /\ NodeCount(stack) < MaxNodes
    /\ \E label \in Labels :
           stack' = Append(stack, Arg_new(label.name, label.description))
    /\ shown' = Idle
    /\ UNCHANGED <<ty, args, pc, outcome, formatter, contents, command>>

\* Arg::with_type(name, description, type) over the k newest Args
WithType ==
    /\ pc = "describe"
    /\ NodeCount(stack) < MaxNodes
    /\ \E label \in Labels, kind \in {"Value", "Choices", "Group"},
          k \in 0..Len(stack) :
           /\ kind = "Value" => k = 0
           /\ stack' = Append(Prefix(stack, Len(stack) - k),
                              Arg_with_type(label.name, label.description,
                                            ArgType(kind, Suffix(stack, Len(stack) - k))))
    /\ shown' = Idle
    /\ UNCHANGED <<ty, args, pc, outcome, formatter, contents, command>>

\* arg.summarize() on the newest Arg
Summarize ==
    /\ pc = "describe"
    /\ stack # <<>>
    /\ shown' = [op |-> "summarize", text |-> Arg_summarize(stack[Len(stack)])]
    /\ pc' = "displayed"
    /\ UNCHANGED <<ty, args, outcome, stack, formatter, contents, command>>

\* arg.details() on the newest Arg
Details ==
    /\ pc = "describe"
    /\ stack # <<>>
    /\ shown' = [op |-> "details", text |-> Arg_details(stack[Len(stack)])]
    /\ pc' = "displayed"
    /\ UNCHANGED <<ty, args, outcome, stack, formatter, contents, command>>

\* choices.summarize() / group.summarize() on the container of the newest Arg
ContainerSummarize ==
    /\ pc = "describe"
    /\ stack # <<>>
    /\ stack[Len(stack)].type.kind # "Value"
    /\ shown' = [op |-> "container_summarize",
                 text |-> IF stack[Len(stack)].type.kind = "Choices"
                          THEN Choices_summarize(stack[Len(stack)].type.args)
                          ELSE ArgGroup_summarize(stack[Len(stack)].type.args)]
    /\ pc' = "displayed"
    /\ UNCHANGED <<ty, args, outcome, stack, formatter, contents, command>>

\* choices.details() / group.details() on the container of the newest Arg
ContainerDetails ==
    /\ pc = "describe"
    /\ stack # <<>>
    /\ stack[Len(stack)].type.kind # "Value"
    /\ shown' = [op |-> "container_details",
                 text |-> IF stack[Len(stack)].type.kind = "Choices"
                          THEN Choices_details(stack[Len(stack)].type.args)
                          ELSE ArgGroup_details(stack[Len(stack)].type.args)]
    /\ pc' = "displayed"
    /\ UNCHANGED <<ty, args, outcome, stack, formatter, contents, command>>

NextArg ==
    \/ New
    \/ WithType
    \/ Summarize
    \/ Details
    \/ ContainerSummarize
    \/ ContainerDetails

SpecArg == InitArg /\ [][NextArg]_vars

\* C1: parse returns Err(TooManyArguments) exactly when T::try_parse succeeds
\* and leaves at least one token; when try_parse succeeds and leaves nothing
\* it returns Ok(callback(value)) and the callback ran exactly once, on the
\* parsed value; when try_parse fails it returns that error and the callback
\* never ran.
C1_ParseContract ==
    pc = "parsed" =>
        LET r == try_parse(ty, args)
        IN /\ (outcome.err = "TooManyArguments") <=> (r.err = "Ok" /\ r.rest # <<>>)
           /\ (r.err = "Ok" /\ r.rest = <<>>) =>
                  /\ outcome.err = "Ok"
                  /\ outcome.value = Callback(r.value)
                  /\ outcome.calls = <<r.value>>
           /\ r.err # "Ok" =>
                  /\ outcome.err = r.err
                  /\ outcome.calls = <<>>
           /\ outcome.err # "Ok" => outcome.calls = <<>>

\* parse refused a structurally complete Example because a token was left
C1_Witness ==
    /\ pc = "parsed"
    /\ ty = "Example"
    /\ outcome.err = "TooManyArguments"

\* C2: a struct of n primitive fields, given at least n tokens of which the
\* i-th converts to the i-th field's type, parses to the value whose i-th
\* field is the conversion of the i-th token, and leaves the tokens after
\* the n-th.
C2_StructFieldsInOrder ==
    (/\ pc = "try_parsed"
     /\ IsStruct(ty)
     /\ AllPrimitive(ty)) =>
        LET fields == Decl(ty).variants[1].fields
            n == Len(fields)
        IN (/\ Len(args) >= n
            /\ \A i \in 1..n : str_parse(fields[i].ty, args[i]).ok) =>
               /\ outcome.err = "Ok"
               /\ Len(outcome.value.fields) = n
               /\ \A i \in 1..n :
                      outcome.value.fields[i] = str_parse(fields[i].ty, args[i]).value
               /\ outcome.rest = Suffix(args, n)

\* the three fields of Toto parsed from three tokens, one token left
C2_Witness ==
    /\ pc = "try_parsed"
    /\ ty = "TotoPositional"
    /\ outcome.err = "Ok"
    /\ Len(outcome.value.fields) = 3
    /\ outcome.value.fields[2] = [u8 |-> 7]
    /\ Len(outcome.rest) = 1

RECURSIVE FieldsChained(_, _, _)
\* each field's value is what its parser yields at the place the previous
\* field stopped, and the fields together stop at `stop`
FieldsChained(fields, values, fieldValues) ==
    IF fields = <<>> THEN [ok |-> fieldValues = <<>>, stop |-> values]
    ELSE LET f == Head(fields)
             r == IF f.try_parse THEN try_parse(f.ty, values)
                  ELSE primitive_field(f.ty, values)
         IN IF r.err # "Ok" \/ fieldValues = <<>> \/ r.value # Head(fieldValues)
               \/ Len(r.log) > Len(values)
            THEN [ok |-> FALSE, stop |-> values]
            ELSE FieldsChained(Tail(fields), Suffix(values, Len(r.log)),
                               Tail(fieldValues))

\* C3: after a successful try_parse the tokens consumed, followed by the
\* remainder, are the original tokens; every field (delegated or not) is
\* parsed from the place the previous one stopped, and the remainder is
\* where the last one stopped.
C3_ConsumedThenRemainder ==
    (pc = "try_parsed" /\ outcome.err = "Ok") =>
        /\ outcome.log \o outcome.rest = args
        /\ LET variants == Decl(ty).variants
               chain == IF IsStruct(ty)
                        THEN FieldsChained(variants[1].fields, args,
                                           outcome.value.fields)
                        ELSE FieldsChained(
                                 variants[FirstOf(MatchingVariants(ty, Head(args)))].fields,
                                 Tail(args), outcome.value.fields)
           IN chain.ok /\ chain.stop = outcome.rest

\* Parent delegated to Leaf, then to Command, and left a token
C3_Witness ==
    /\ pc = "try_parsed"
    /\ ty = "Parent"
    /\ outcome.err = "Ok"
    /\ outcome.rest # <<>>

RunsPastEnd(t, values, token) ==
    Len(try_parse(t, Append(values, token)).log) > Len(values)

\* C5: a parse fails with TooFewArguments exactly when a token position it
\* requires lies past the end of the stream, that is, when it would take
\* one more token were there one (whatever that token is).
C5_TooFewIffPastEnd ==
    pc \in {"try_parsed", "parsed"} =>
        /\ (outcome.err = "TooFewArguments") <=>
               (\E token \in Tokens : RunsPastEnd(ty, args, token))
        /\ (outcome.err = "TooFewArguments") =>
               (\A token \in Tokens : RunsPastEnd(ty, args, token))

\* Command::Tuple is selected and its fields need tokens that are not there
C5_Witness ==
    /\ pc = "try_parsed"
    /\ ty = "Command"
    /\ args = <<<<"t","u","p","l","e">>, <<"7">>, <<"7">>>>
    /\ outcome.err = "TooFewArguments"

\* C6: a failed try_parse returns no value; the tokens it examined are a
\* prefix of the input ending at the failing position p; nothing failed
\* before p (every shorter prefix only runs out of tokens); the token at p
\* is one that fails (a conversion for BadType, a variant lookup for
\* VariantNotFound, the end of the stream for TooFewArguments); the tokens
\* after p have no influence on the result; and once a discriminant has
\* selected a variant the error is the one of that variant's fields.
C6_FirstErrorAborts ==
    (pc = "try_parsed" /\ outcome.err # "Ok") =>
        LET p == Len(outcome.log)
        IN /\ outcome.value = NoValue
           /\ p <= Len(args)
           /\ outcome.log = Prefix(args, p)
           /\ \A k \in 0..(p - 1) :
                  try_parse(ty, Prefix(args, k)).err = "TooFewArguments"
           /\ outcome.err = "TooFewArguments" => p = Len(args)
           /\ outcome.err = "BadType" =>
                  /\ p >= 1
                  /\ \E u \in PrimitiveFieldTypes(ty) : ~str_parse(u, args[p]).ok
           /\ outcome.err = "VariantNotFound" =>
                  /\ p >= 1
                  /\ \E e \in ReachableTypes({ty}) :
                         IsEnum(e) /\ MatchingVariants(e, args[p]) = {}
           /\ outcome.err \in {"BadType", "VariantNotFound"} =>
                  /\ \A k \in p..Len(args) :
                         try_parse(ty, Prefix(args, k)) = outcome
                  /\ \A j \in (p + 1)..Len(args) : \A token \in Tokens :
                         try_parse(ty, [args EXCEPT ![j] = token]) = outcome
           /\ (IsEnum(ty) /\ args # <<>> /\ MatchingVariants(ty, Head(args)) # {}) =>
                  outcome.err =
                      impl_object_initialisation(
                          ty,
                          Decl(ty).variants[FirstOf(MatchingVariants(ty, Head(args)))],
                          Tail(args)).err

\* Command::Tuple was selected, its first field failed to convert, and the
\* tokens after it were left alone
C6_Witness ==
    /\ pc = "try_parsed"
    /\ ty = "Command"
    /\ Len(args) = MaxArgs
    /\ Head(args) = <<"t","u","p","l","e">>
    /\ outcome.err = "BadType"
    /\ Len(outcome.log) = 2

(***************************************************************************)
(* Formatter::fmt as a function of the Formatter and of what                *)
(* format_function returns for each item.                                  *)
(***************************************************************************)
\* the Formatters: every field absent or present
Formatters ==
    [very_start : {None, Some(<<"[">>)},
     very_end : {None, Some(<<"]">>)},
     start : {None, Some(<<"<">>)},
     end : {None, Some(<<">">>)},
     middle : {None, Some(<<",">>)},
     new_line_chars : {None, Some(<<" ", " ">>)}]

\* what format_function returns: nothing, an empty string, one line without
\* and with its line feed, two lines with the last one ended or not, and
\* two lines ended by "\r\n"
Rendered ==
    {None,
     Some(<<>>),
     Some(<<"x">>),
     Some(<<"x", "\n", "y", "\n">>),
     Some(<<"x", "\n", "y">>),
     Some(<<"x", "\r", "\n", "y", "\r", "\n">>)}

InitFmt ==
    /\ ty = "Empty"
    /\ args = <<>>
    /\ pc = "format"
    /\ outcome = Idle
    /\ stack = <<>>
    /\ shown = Idle
    /\ formatter \in Formatters
    /\ contents \in SeqsUpTo(Rendered, MaxItems)
    /\ command = Idle

\* formatter.fmt(items.iter(), format_function)
Fmt ==
    /\ pc = "format"
    /\ shown' = [op |-> "fmt", text |-> Formatter_fmt(formatter, contents)]
    /\ pc' = "formatted"
    /\ UNCHANGED <<ty, args, outcome, stack, formatter, contents, command>>

NextFmt == Fmt

SpecFmt == InitFmt /\ [][NextFmt]_vars

(***************************************************************************)
(* Display of a Value and details() of a leaf, as functions of the name    *)
(* and the description.                                                    *)
(***************************************************************************)
\* names of every length up to MaxName
ValueNames == {[i \in 1..n |-> "n"] : n \in 0..MaxName}

\* no description, an empty one, and two descriptions
ValueDescriptions == {None, Some(<<>>), Some(<<"d">>), Some(<<"d", " ", "e">>)}

InitValue ==
    /\ ty = "Empty"
    /\ args = <<>>
    /\ pc = "describe"
    /\ outcome = Idle
    /\ \E name \in ValueNames, description \in ValueDescriptions :
           stack = <<Arg_new(name, description)>>
    /\ shown = Idle
    /\ formatter = Idle
    /\ contents = <<>>
    /\ command = Idle

\* format!("{}", value) on the Value of the newest Arg
Display ==
    /\ pc = "describe"
    /\ stack # <<>>
    /\ shown' = [op |-> "display", text |-> Value_fmt(stack[Len(stack)].value)]
    /\ pc' = "displayed"
    /\ UNCHANGED <<ty, args, outcome, stack, formatter, contents, command>>

\* format!("{:#}", value) on the Value of the newest Arg
DisplayAlternate ==
    /\ pc = "describe"
    /\ stack # <<>>
    /\ shown' = [op |-> "display_alternate",
                 text |-> Value_fmt_alternate(stack[Len(stack)].value)]
    /\ pc' = "displayed"
    /\ UNCHANGED <<ty, args, outcome, stack, formatter, contents, command>>

NextValue ==
    \/ Display
    \/ DisplayAlternate
    \/ Summarize
    \/ Details

SpecValue == InitValue /\ [][NextValue]_vars

(***************************************************************************)
(* clip_core/src/describe/command.rs                                        *)
(***************************************************************************)
\* Command::new
Command_new(name, description) ==
    [value |-> [name |-> name, description |-> description],
     subcommands |-> None,
     arguments |-> <<>>]

\* Command::set_subcommands
Command_set_subcommands(self, subcommands) ==
    [self EXCEPT !.subcommands = Some(subcommands)]

\* Command::set_arguments that replaces the arguments
Command_set_arguments_Replaces(self, arguments) ==
    [self EXCEPT !.arguments = arguments]

\* Command::set_arguments
Command_set_arguments(self, arguments) ==
    [self EXCEPT !.arguments = self.arguments \o arguments]

\* " [COMMAND] .."
CommandMark == <<" ", "[", "C", "O", "M", "M", "A", "N", "D", "]", " ", ".", ".">>

\* "Arguments:\n"
ArgumentsTitle == <<"A", "r", "g", "u", "m", "e", "n", "t", "s", ":", "\n">>

\* "Commands:\n"
CommandsTitle == <<"C", "o", "m", "m", "a", "n", "d", "s", ":", "\n">>

\* the part of Command::summarize pushed for the arguments
summarize_arguments(self) ==
    IF self.arguments # <<>>
    THEN <<" ">> \o ArgGroup_summarize(self.arguments)
    ELSE <<>>

\* Command::summarize with the mark only when there is a subcommand
Command_summarize_MarkIfAny(self) ==
    Value_fmt(self.value)
    \o summarize_arguments(self)
    \o (IF self.subcommands # None /\ self.subcommands[1] # <<>>
        THEN CommandMark ELSE <<>>)

\* Command::summarize
Command_summarize(self) ==
    Value_fmt(self.value)
    \o summarize_arguments(self)
    \o (IF self.subcommands # None THEN CommandMark ELSE <<>>)

\* Command::arguments_details
arguments_details(self) ==
    ArgumentsTitle \o start_with(ArgGroup_details(self.arguments), <<" ", " ">>)

\* |cmd| Some(format!("{:#}\n", cmd.value)) on every command
command_lines(commands) ==
    [i \in 1..Len(commands) |->
        Some(Value_fmt_alternate(commands[i].value) \o <<"\n">>)]

\* Command::command_details
command_details(commands) ==
    CommandsTitle
    \o start_with(Formatter_fmt(Formatter_default, command_lines(commands)),
                  <<" ", " ">>)

\* the part of Command::details pushed for the arguments
details_arguments(self) ==
    IF self.arguments # <<>>
    THEN arguments_details(self)
         \o (IF self.subcommands # None THEN <<"\n">> ELSE <<>>)
    ELSE <<>>

\* Command::details with the blank line after every Arguments block
Command_details_AlwaysBlankLine(self) ==
    (IF self.arguments # <<>> THEN arguments_details(self) \o <<"\n">> ELSE <<>>)
    \o (IF self.subcommands # None THEN command_details(self.subcommands[1])
        ELSE <<>>)

\* Command::details
Command_details(self) ==
    details_arguments(self)
    \o (IF self.subcommands # None THEN command_details(self.subcommands[1])
        ELSE <<>>)

\* "Usage: "
UsageTitle == <<"U", "s", "a", "g", "e", ":", " ">>

\* the description paragraph of AsCommand::help
help_description(self) ==
    IF self.value.description # None
    THEN self.value.description[1] \o <<"\n", "\n">>
    ELSE <<>>

\* AsCommand::help with the blank line of the description paragraph even
\* without a description
AsCommand_help_AlwaysParagraph(self) ==
    unwrap_or(self.value.description, <<>>) \o <<"\n", "\n">>
    \o UsageTitle \o Command_summarize(self)
    \o <<"\n", "\n">> \o Command_details(self)

\* AsCommand::help, self being what Self::command() returns
AsCommand_help(self) ==
    help_description(self)
    \o UsageTitle \o Command_summarize(self)
    \o <<"\n", "\n">> \o Command_details(self)

(***************************************************************************)
(* The command state machine: Commands are created, given arguments and    *)
(* subcommands (the Commands created after them), and the newest Command   *)
(* left is rendered once.                                                  *)
(***************************************************************************)
\* the Arg vectors handed to set_arguments: a leaf, an empty Group, an
\* empty Choices, and a described leaf followed by a Choices of one leaf
ArgVectors ==
    {<<Arg_new(<<"a">>, None)>>,
     <<Arg_with_type(<<"a">>, None, ArgType("Group", <<>>))>>,
     <<Arg_with_type(<<"a">>, None, ArgType("Choices", <<>>))>>,
     <<Arg_new(<<"b", "c">>, Some(<<"d">>)),
       Arg_with_type(<<"a">>, None,
                     ArgType("Choices", <<Arg_new(<<"a">>, None)>>))>>}

RECURSIVE CommandCount(_)
\* the Commands in a sequence of Commands, subcommands included
CommandCount(commands) ==
    IF commands = <<>> THEN 0
    ELSE 1 + CommandCount(unwrap_or(Head(commands).subcommands, <<>>))
         + CommandCount(Tail(commands))

RECURSIVE ArgumentCount(_)
\* the Args of the arguments of a sequence of Commands, subcommands included
ArgumentCount(commands) ==
    IF commands = <<>> THEN 0
    ELSE NodeCount(Head(commands).arguments)
         + ArgumentCount(unwrap_or(Head(commands).subcommands, <<>>))
         + ArgumentCount(Tail(commands))

InitCommand ==
    /\ ty = "Empty"
    /\ args = <<>>
    /\ pc = "command"
    /\ outcome = Idle
    /\ stack = <<>>
    /\ shown = Idle
    /\ formatter = Idle
    /\ contents = <<>>
    /\ command = <<>>

\* Command::new(name, description)
CommandNew ==
    /\ pc = "command"
    /\ CommandCount(command) + ArgumentCount(command) < MaxNodes
    /\ \E label \in Labels :
           command' = Append(command, Command_new(label.name, label.description))
    /\ UNCHANGED <<ty, args, pc, outcome, stack, shown, formatter, contents>>

\* command.set_arguments(arguments) on the newest Command
SetArguments ==
    /\ pc = "command"
    /\ command # <<>>
    /\ \E arguments \in ArgVectors :
           /\ CommandCount(command) + ArgumentCount(command)
                  + NodeCount(arguments) <= MaxNodes
           /\ command' = [command EXCEPT ![Len(command)] =
                             Command_set_arguments(@, arguments)]
    /\ UNCHANGED <<ty, args, pc, outcome, stack, shown, formatter, contents>>

\* parent.set_subcommands(subcommands): the k newest Commands become the
\* subcommands of the Command created before them
SetSubcommands ==
    /\ pc = "command"
    /\ \E k \in 0..(Len(command) - 1) :
           command' = Append(Prefix(command, Len(command) - k - 1),
                             Command_set_subcommands(
                                 command[Len(command) - k],
                                 Suffix(command, Len(command) - k)))
    /\ UNCHANGED <<ty, args, pc, outcome, stack, shown, formatter, contents>>

\* command.summarize() on the newest Command
CommandSummarize ==
    /\ pc = "command"
    /\ command # <<>>
    /\ shown' = [op |-> "command_summarize",
                 text |-> Command_summarize(command[Len(command)])]
    /\ pc' = "displayed"
    /\ UNCHANGED <<ty, args, outcome, stack, formatter, contents, command>>

\* command.details() on the newest Command
CommandDetails ==
    /\ pc = "command"
    /\ command # <<>>
    /\ shown' = [op |-> "command_details",
                 text |-> Command_details(command[Len(command)])]
    /\ pc' = "displayed"
    /\ UNCHANGED <<ty, args, outcome, stack, formatter, contents, command>>

\* T::help() where T::command() returns the newest Command
CommandHelp ==
    /\ pc = "command"
    /\ command # <<>>
    /\ shown' = [op |-> "help", text |-> AsCommand_help(command[Len(command)])]
    /\ pc' = "displayed"
    /\ UNCHANGED <<ty, args, outcome, stack, formatter, contents, command>>

NextCommand ==
    \/ CommandNew
    \/ SetArguments
    \/ SetSubcommands
    \/ CommandSummarize
    \/ CommandDetails
    \/ CommandHelp

SpecCommand == InitCommand /\ [][NextCommand]_vars

(***************************************************************************)
(* Vocabulary of the description claims.                                   *)
(***************************************************************************)
RECURSIVE Subtrees(_)
\* the Args of a sequence of trees, at every depth
Subtrees(argSeq) ==
    UNION {{argSeq[i]} \cup Subtrees(argSeq[i].type.args) : i \in 1..Len(argSeq)}

\* the largest number of a non-empty set
MaxOf(S) == CHOOSE m \in S : \A x \in S : x <= m

\* the max_depth values of the children of an Arg
ChildDepths(arg) == {arg.type.args[i].max_depth : i \in 1..Len(arg.type.args)}

\* the newest Arg
Newest == stack[Len(stack)]

\* C7: max_depth is 1 for a leaf (Arg::new, or with_type over Value), one
\* more than the largest child max_depth for a Choices with children, and
\* the largest child max_depth for a Group with children; it stays so for
\* every Arg once it is part of a larger tree.
C7_MaxDepthAtConstruction ==
    \A a \in Subtrees(stack) :
        /\ a.type.kind = "Value" => a.max_depth = 1
        /\ (a.type.kind = "Choices" /\ a.type.args # <<>>) =>
               a.max_depth = 1 + MaxOf(ChildDepths(a))
        /\ (a.type.kind = "Group" /\ a.type.args # <<>>) =>
               a.max_depth = MaxOf(ChildDepths(a))

\* a Choices over a leaf and a Choices of a leaf, and a Group over the same
\* kind of children
C7_Witness ==
    /\ \E a \in Subtrees(stack) :
           /\ a.type.kind = "Choices"
           /\ ChildDepths(a) = {1, 2}
           /\ a.max_depth = 3
    /\ \E a \in Subtrees(stack) :
           /\ a.type.kind = "Group"
           /\ a.type.args # <<>>

\* C8 as claimed: an Arg over a composite without children has max_depth 1.
C8_EmptyCompositeIsOne ==
    \A a \in Subtrees(stack) :
        (a.type.kind \in {"Choices", "Group"} /\ a.type.args = <<>>) =>
            a.max_depth = 1

\* C8: an Arg over an empty Group has max_depth 1, and an Arg over an empty
\* Choices has max_depth 2: the 1 of the empty container plus the level a
\* Choices always adds.
C8_EmptyComposite ==
    \A a \in Subtrees(stack) :
        /\ (a.type.kind = "Group" /\ a.type.args = <<>>) => a.max_depth = 1
        /\ (a.type.kind = "Choices" /\ a.type.args = <<>>) => a.max_depth = 2

\* an empty Choices and an empty Group have been built
C8_Witness ==
    /\ \E a \in Subtrees(stack) : a.type.kind = "Choices" /\ a.type.args = <<>>
    /\ \E a \in Subtrees(stack) : a.type.kind = "Group" /\ a.type.args = <<>>

\* C9: summarize() of a leaf, and of a Choices with max_depth at most 2, is
\* the bare name; summarize() of a Choices with max_depth above 2 is the
\* summarize() of the Choices container.
C9_SummarizeChoices ==
    (shown # Idle /\ shown.op = "summarize") =>
        /\ (\/ Newest.type.kind = "Value"
            \/ (Newest.type.kind = "Choices" /\ Newest.max_depth <= 2)) =>
               shown.text = Newest.value.name
        /\ (Newest.type.kind = "Choices" /\ Newest.max_depth > 2) =>
               shown.text = Choices_summarize(Newest.type.args)

\* a Choices of max_depth 3 was summarized, and not by its name
C9_Witness ==
    /\ shown # Idle
    /\ shown.op = "summarize"
    /\ Newest.type.kind = "Choices"
    /\ Newest.max_depth = 3
    /\ shown.text # Newest.value.name

\* C10: summarize() of a Group, whatever its depth and children, is the
\* summarize() of the Group container and is not the bare name of the Arg.
C10_SummarizeGroup ==
    (shown # Idle /\ shown.op = "summarize" /\ Newest.type.kind = "Group") =>
        /\ shown.text = ArgGroup_summarize(Newest.type.args)
        /\ shown.text # Newest.value.name

\* a Group of max_depth 2 holding a Choices was summarized
C10_Witness ==
    /\ shown # Idle
    /\ shown.op = "summarize"
    /\ Newest.type.kind = "Group"
    /\ Newest.max_depth = 2
    /\ \E i \in 1..Len(Newest.type.args) : Newest.type.args[i].type.kind = "Choices"
(***************************************************************************)
(* Vocabulary of the rendering claims.                                     *)
(***************************************************************************)
RECURSIVE Concat(_)
\* the strings of a sequence, one after the other
Concat(strings) ==
    IF strings = <<>> THEN <<>> ELSE Head(strings) \o Concat(Tail(strings))

\* every line followed by a line feed
Unlines(lineSeq) == Concat([i \in 1..Len(lineSeq) |-> lineSeq[i] \o <<"\n">>])

\* every line with chars in front
Indented(lineSeq, chars) == [i \in 1..Len(lineSeq) |-> chars \o lineSeq[i]]

\* n spaces
Spaces(n) == [i \in 1..n |-> " "]

\* the name/description line of a Value, without its line feed
HeaderLine(value) ==
    IF value.description = None THEN value.name
    ELSE value.name
         \o Spaces(IF Len(value.name) < 8 THEN 8 - Len(value.name) ELSE 0)
         \o value.description[1]

\* how many times pattern occurs in text
CountOf(pattern, text) ==
    Cardinality({i \in 1..Len(text) :
                    /\ i + Len(pattern) - 1 <= Len(text)
                    /\ SubSeq(text, i, i + Len(pattern) - 1) = pattern})

\* C11: details() of a Choices-typed Arg with max_depth at most 2 and at
\* least one child is the Arg's own name/description line followed by the
\* lines of Choices.details(), each with two spaces in front, and holds
\* exactly one "- " bullet per child.
C11_ShallowChoicesDetails ==
    (/\ shown # Idle
     /\ shown.op = "details"
     /\ Newest.type.kind = "Choices"
     /\ Newest.max_depth <= 2
     /\ Newest.type.args # <<>>) =>
        /\ shown.text =
               HeaderLine(Newest.value) \o <<"\n">>
               \o Unlines(Indented(lines(Choices_details(Newest.type.args)),
                                   <<" ", " ">>))
        /\ CountOf(<<"-", " ">>, shown.text) = Len(Newest.type.args)

\* the details of a shallow Choices over a Group of two leaves: one bullet,
\* two lines
C11_Witness ==
    /\ shown # Idle
    /\ shown.op = "details"
    /\ Newest.type.kind = "Choices"
    /\ Newest.max_depth <= 2
    /\ \E i \in 1..Len(Newest.type.args) :
           Len(lines(Arg_details(Newest.type.args[i]))) = 2
    /\ Len(lines(shown.text)) = 3

\* C12: details() of a Group-typed Arg, and of a Choices-typed Arg with
\* max_depth above 2, is the details() of its container; the text is the
\* same whatever the Arg's own name and description are.
C12_DelegatedDetails ==
    (/\ shown # Idle
     /\ shown.op = "details"
     /\ \/ Newest.type.kind = "Group"
        \/ (Newest.type.kind = "Choices" /\ Newest.max_depth > 2)) =>
        /\ shown.text = (IF Newest.type.kind = "Group"
                         THEN ArgGroup_details(Newest.type.args)
                         ELSE Choices_details(Newest.type.args))
        /\ \A label \in Labels :
               Arg_details([Newest EXCEPT !.value = label]) = shown.text

\* the details of a deep Choices holding a Group with a child
C12_Witness ==
    /\ shown # Idle
    /\ shown.op = "details"
    /\ Newest.type.kind = "Choices"
    /\ Newest.max_depth > 2
    /\ \E i \in 1..Len(Newest.type.args) :
           /\ Newest.type.args[i].type.kind = "Group"
           /\ Newest.type.args[i].type.args # <<>>
    /\ shown.text # <<>>
\* the items format_function returned a value for
RenderedItems == SelectSeq(contents, LAMBDA c : c # None)

\* the content of an item as fmt emits it
EmittedContent(item) ==
    IF formatter.new_line_chars = None THEN item
    ELSE start_other_lines_with(item, formatter.new_line_chars[1])

\* the k-th rendered item behind the separator (but for the first), between
\* the item prefix and the item suffix
SeparatedItem(k) ==
    (IF k = 1 THEN <<>> ELSE unwrap_or(formatter.middle, <<>>))
    \o unwrap_or(formatter.start, <<>>)
    \o EmittedContent(RenderedItems[k][1])
    \o unwrap_or(formatter.end, <<>>)

\* C13 as claimed: fmt emits the separator before every rendered item but
\* the first rendered one, whatever the contents (empty strings included),
\* every item as item prefix, content, item suffix in input order, all of it
\* between the whole prefix and the whole suffix.
C13_SeparatorBeforeAllButFirst ==
    (shown # Idle /\ shown.op = "fmt") =>
        shown.text =
            unwrap_or(formatter.very_start, <<>>)
            \o Concat([k \in 1..Len(RenderedItems) |-> SeparatedItem(k)])
            \o unwrap_or(formatter.very_end, <<>>)

\* C14: fmt over the items equals fmt over the items format_function
\* returned a value for: a skipped item adds nothing, wherever it is.
C14_SkippedItemsAddNothing ==
    (shown # Idle /\ shown.op = "fmt") =>
        shown.text = Formatter_fmt(formatter, RenderedItems)

\* a first and a last item skipped around a rendered one, with an item
\* prefix and a separator configured
C14_Witness ==
    /\ shown # Idle
    /\ shown.op = "fmt"
    /\ Len(contents) = 3
    /\ contents[1] = None
    /\ contents[2] # None
    /\ contents[3] = None
    /\ formatter.start # None
    /\ formatter.middle # None
    /\ formatter.very_start = None
    /\ formatter.very_end = None
    /\ shown.text = formatter.start[1] \o EmittedContent(contents[2][1])
                    \o unwrap_or(formatter.end, <<>>)
RECURSIVE InsertIndents(_, _)
\* content with chars put in front of every line after the first, and
\* nothing else changed
InsertIndents(content, chars) ==
    IF content = <<>> THEN <<>>
    ELSE IF Head(content) = "\n" /\ Tail(content) # <<>>
         THEN <<"\n">> \o chars \o InsertIndents(Tail(content), chars)
         ELSE <<Head(content)>> \o InsertIndents(Tail(content), chars)

RECURSIVE AccumulateIndented(_, _)
\* the accumulation of fmt over the rendered items, every content being
\* InsertIndents of what format_function returned
AccumulateIndented(items, string) ==
    IF items = <<>> THEN string
    ELSE AccumulateIndented(
             Tail(items),
             string
             \o (IF string = <<>> THEN <<>> ELSE unwrap_or(formatter.middle, <<>>))
             \o unwrap_or(formatter.start, <<>>)
             \o InsertIndents(Head(items)[1], formatter.new_line_chars[1])
             \o unwrap_or(formatter.end, <<>>))

\* C15 as claimed: with a continuation indent configured, fmt emits every
\* content with its first line untouched and the indent in front of every
\* later line, and adds or removes nothing else.
C15_OnlyIndentsInserted ==
    (shown # Idle /\ shown.op = "fmt" /\ formatter.new_line_chars # None) =>
        shown.text =
            unwrap_or(formatter.very_start, <<>>)
            \o AccumulateIndented(RenderedItems, <<>>)
            \o unwrap_or(formatter.very_end, <<>>)
RECURSIVE Join(_, _)
\* the strings with sep between neighbours
Join(strings, sep) ==
    IF strings = <<>> THEN <<>>
    ELSE IF Len(strings) = 1 THEN Head(strings)
    ELSE Head(strings) \o sep \o Join(Tail(strings), sep)

\* the summaries of the children of the newest Arg, in order
ChildSummaries ==
    [i \in 1..Len(Newest.type.args) |-> Arg_summarize(Newest.type.args[i])]

\* C16 as claimed: ArgGroup.summarize() is every child's summary between
\* "<" and ">", joined by one space; Choices.summarize() is the children's
\* summaries joined by "|" between one "<" and one ">"; in child order.
C16_SummaryStyles ==
    (shown # Idle /\ shown.op = "container_summarize") =>
        /\ Newest.type.kind = "Group" =>
               shown.text =
                   Join([i \in 1..Len(ChildSummaries) |->
                            <<"<">> \o ChildSummaries[i] \o <<">">>], <<" ">>)
        /\ Newest.type.kind = "Choices" =>
               shown.text = <<"<">> \o Join(ChildSummaries, <<"|">>) \o <<">">>
\* the details of the children of the newest Arg, in order
ChildDetails ==
    [i \in 1..Len(Newest.type.args) |-> Arg_details(Newest.type.args[i])]

\* the lines of a text, the first as it is and the later ones with two
\* spaces in front
ContinuationIndented(text) ==
    IF lines(text) = <<>> THEN <<>>
    ELSE Unlines(<<Head(lines(text))>>
                 \o Indented(Tail(lines(text)), <<" ", " ">>))

\* the children of the newest Arg are leaves
LeafChildren ==
    \A i \in 1..Len(Newest.type.args) : Newest.type.args[i].type.kind = "Value"

NewestCommand == command[Len(command)]

\* text starts with prefix
StartsWith(text, prefix) ==
    Len(prefix) <= Len(text) /\ SubSeq(text, 1, Len(prefix)) = prefix

\* text ends with suffix
EndsWith(text, suffix) ==
    /\ Len(suffix) <= Len(text)
    /\ SubSeq(text, Len(text) - Len(suffix) + 1, Len(text)) = suffix

\* what the summary of the newest Command holds between the command name
\* and the " [COMMAND] .." mark
SummaryMiddle ==
    SubSeq(shown.text,
           Len(NewestCommand.value.name) + 1,
           Len(shown.text)
           - (IF NewestCommand.subcommands # None THEN Len(CommandMark) ELSE 0))

\* C19: Command.summarize() is the command name, then " " and
\* arguments.summarize() exactly when there are arguments, then
\* " [COMMAND] .." exactly when subcommands is present, whatever the
\* subcommands are.
C19_CommandSummarize ==
    (shown # Idle /\ shown.op = "command_summarize") =>
        /\ StartsWith(shown.text, NewestCommand.value.name)
        /\ EndsWith(shown.text, CommandMark) <=> NewestCommand.subcommands # None
        /\ NewestCommand.arguments = <<>> => SummaryMiddle = <<>>
        /\ NewestCommand.arguments # <<>> =>
               SummaryMiddle = <<" ">> \o ArgGroup_summarize(NewestCommand.arguments)
        /\ NewestCommand.subcommands # None =>
               shown.text = Command_summarize(
                                [NewestCommand EXCEPT !.subcommands = Some(<<>>)])

\* the summary of a Command with arguments and with subcommands
C19_Witness ==
    /\ shown # Idle
    /\ shown.op = "command_summarize"
    /\ Len(NewestCommand.arguments) = 2
    /\ NewestCommand.subcommands # None
    /\ NewestCommand.subcommands[1] # <<>>
    /\ EndsWith(shown.text, <<">">> \o CommandMark)

\* the "Arguments:" block of the newest Command
ArgumentsBlock ==
    ArgumentsTitle
    \o Unlines(Indented(lines(ArgGroup_details(NewestCommand.arguments)),
                        <<" ", " ">>))

\* the "Commands:" block of the newest Command: one line per direct
\* subcommand
CommandsBlock ==
    CommandsTitle
    \o Unlines([i \in 1..Len(NewestCommand.subcommands[1]) |->
                   <<" ", " ">> \o HeaderLine(NewestCommand.subcommands[1][i].value)])

\* C20: Command.details() is the "Arguments:" block (arguments.details()
\* behind two spaces) only when there are arguments, then the "Commands:"
\* block only when subcommands is present, with one blank line between
\* them only when both are there; the "Commands:" block has one indented
\* name/description line per direct subcommand, in order, and nothing of a
\* subcommand's arguments or subcommands.
C20_CommandDetails ==
    (shown # Idle /\ shown.op = "command_details") =>
        shown.text =
            (IF NewestCommand.arguments # <<>> THEN ArgumentsBlock ELSE <<>>)
            \o (IF NewestCommand.arguments # <<>> /\ NewestCommand.subcommands # None
                THEN <<"\n">> ELSE <<>>)
            \o (IF NewestCommand.subcommands # None THEN CommandsBlock ELSE <<>>)

\* the details of a Command with an argument and a subcommand that has an
\* argument of its own
C20_Witness ==
    /\ shown # Idle
    /\ shown.op = "command_details"
    /\ NewestCommand.arguments # <<>>
    /\ NewestCommand.subcommands # None
    /\ \E i \in 1..Len(NewestCommand.subcommands[1]) :
           NewestCommand.subcommands[1][i].arguments # <<>>
    /\ CountOf(<<"\n", "\n">>, shown.text) = 1
\* C21: help() is the description and a blank line when the command has a
\* description and nothing otherwise, then "Usage: " and summarize(), a
\* blank line, and details(); without a description it starts with
\* "Usage: ".
C21_Help ==
    (shown # Idle /\ shown.op = "help") =>
        /\ shown.text =
               (IF NewestCommand.value.description # None
                THEN NewestCommand.value.description[1] \o <<"\n", "\n">>
                ELSE <<>>)
               \o UsageTitle \o Command_summarize(NewestCommand)
               \o <<"\n", "\n">> \o Command_details(NewestCommand)
        /\ NewestCommand.value.description = None =>
               StartsWith(shown.text, UsageTitle \o NewestCommand.value.name)
        /\ NewestCommand.value.description # None =>
               StartsWith(shown.text,
                          NewestCommand.value.description[1] \o <<"\n", "\n">>
                          \o UsageTitle \o NewestCommand.value.name)

\* the help of a Command without description that has arguments and
\* subcommands
C21_Witness ==
    /\ shown # Idle
    /\ shown.op = "help"
    /\ NewestCommand.value.description = None
    /\ NewestCommand.arguments # <<>>
    /\ NewestCommand.subcommands # None
    /\ NewestCommand.subcommands[1] # <<>>
    /\ StartsWith(shown.text, UsageTitle)
\* no panic happened while the text was built
NoPanic(text) == \A i \in 1..Len(text) : text[i] # Panicked

RECURSIVE ArgumentsOf(_)
\* the Args of the arguments of a sequence of Commands, subcommands
\* included, at every depth
ArgumentsOf(commands) ==
    UNION {Subtrees(commands[i].arguments)
           \cup ArgumentsOf(unwrap_or(commands[i].subcommands, <<>>)) :
           i \in 1..Len(commands)}

\* C22: whatever Args and Commands are constructed (a Choices without
\* alternatives, an empty Group, an empty subcommand list included), every
\* max_depth is a positive number and summarize(), details() and help()
\* return a text: nothing panics.
C22_NoErrorPath ==
    /\ \A a \in Subtrees(stack) \cup ArgumentsOf(command) :
           a.max_depth \in Nat \ {0}
    /\ shown # Idle => NoPanic(shown.text)

\* the help of a Command over an empty Choices and an empty Group, with an
\* empty subcommand list
C22_Witness ==
    /\ shown # Idle
    /\ shown.op = "help"
    /\ NewestCommand.subcommands = Some(<<>>)
    /\ \E i \in 1..Len(NewestCommand.arguments) :
           /\ NewestCommand.arguments[i].type.kind = "Choices"
           /\ NewestCommand.arguments[i].type.args = <<>>
    /\ \E i \in 1..Len(NewestCommand.arguments) :
           /\ NewestCommand.arguments[i].type.kind = "Group"
           /\ NewestCommand.arguments[i].type.args = <<>>
    /\ NoPanic(shown.text)
\* C23: summarize() of an Arg, of a Group or Choices and of a Command is a
\* single line, whatever the nesting: no line break occurs in it (the names
\* hold none).
C23_SummaryIsOneLine ==
    (shown # Idle /\ shown.op \in {"summarize", "container_summarize",
                                   "command_summarize"}) =>
        CountOf(<<"\n">>, shown.text) = 0

\* the summary of an Arg that nests a Choices in a Group of several items
C23_Witness ==
    /\ shown # Idle
    /\ shown.op = "summarize"
    /\ Newest.type.kind = "Group"
    /\ Len(Newest.type.args) >= 2
    /\ \E i \in 1..Len(Newest.type.args) :
           /\ Newest.type.args[i].type.kind = "Choices"
           /\ Newest.type.args[i].type.args # <<>>
    /\ CountOf(<<" ">>, shown.text) >= 1
    /\ CountOf(<<"\n">>, shown.text) = 0
\* the character at position i of text is the first of its line, apart
\* from the indentation
StartsItsLine(text, i) ==
    \E j \in 0..(i - 1) :
        /\ j = 0 \/ text[j] = "\n"
        /\ \A k \in (j + 1)..(i - 1) : text[k] = " "

\* C24: details() of an Arg, of a Group or of a Choices is made of lines
\* that end with a line feed: it is empty or ends with a line feed, and
\* every "- " of a Choices is the first thing on its line after the
\* indentation, also when a child renders to the empty text.
C24_DetailsAreLines ==
    (shown # Idle /\ shown.op \in {"details", "container_details"}) =>
        /\ shown.text = <<>> \/ shown.text[Len(shown.text)] = "\n"
        /\ \A i \in 1..Len(shown.text) :
               shown.text[i] = "-" => StartsItsLine(shown.text, i)
\* C25: fmt over no item, or over items for which the renderer returns
\* nothing, is the whole prefix followed by the whole suffix, each taken as
\* empty when not configured.
C25_NothingRendered ==
    (shown # Idle /\ shown.op = "fmt" /\ RenderedItems = <<>>) =>
        shown.text = (IF formatter.very_start = None THEN <<>>
                      ELSE formatter.very_start[1])
                     \o (IF formatter.very_end = None THEN <<>>
                         ELSE formatter.very_end[1])

\* fmt over several items, none of them rendered, by a Formatter with a
\* whole prefix, a whole suffix, a separator and an item prefix
C25_Witness ==
    /\ shown # Idle
    /\ shown.op = "fmt"
    /\ Len(contents) >= 2
    /\ RenderedItems = <<>>
    /\ formatter.very_start # None
    /\ formatter.very_end # None
    /\ formatter.middle # None
    /\ formatter.start # None
    /\ shown.text = formatter.very_start[1] \o formatter.very_end[1]
\* enum t has only unit variants
IsUnitEnum(t) ==
    /\ IsEnum(t)
    /\ \A i \in 1..Len(Decl(t).variants) : Decl(t).variants[i].fields = <<>>

\* C26: on an enum of unit variants, from_str(s) succeeds with variant V
\* exactly when try_parse on the one token s succeeds with V and nothing
\* left; both match the variant names whatever the case; from_str fails
\* exactly when try_parse fails with VariantNotFound.
C26_FromStrAsTryParse ==
    (pc = "try_parsed" /\ IsUnitEnum(ty) /\ Len(args) = 1) =>
        /\ from_str(ty, args[1]).ok <=> outcome.err = "Ok"
        /\ from_str(ty, args[1]).ok =>
               /\ outcome.value = from_str(ty, args[1]).value
               /\ outcome.rest = <<>>
               /\ EqIgnoreCase(outcome.value.ident, args[1])
        /\ ~from_str(ty, args[1]).ok <=> outcome.err = "VariantNotFound"
        /\ from_str(ty, args[1]).ok <=> MatchingVariants(ty, args[1]) # {}

\* a variant named in another case than declared, found by both
C26_Witness ==
    /\ pc = "try_parsed"
    /\ IsUnitEnum(ty)
    /\ Len(args) = 1
    /\ outcome.err = "Ok"
    /\ outcome.value.ident # args[1]
    /\ from_str(ty, args[1]).ok
    /\ from_str(ty, args[1]).value = outcome.value
\* the Args below arg, at every depth
Descendants(arg) == Subtrees(arg.type.args)

\* C27 as stated: every Choices with max_depth 2, which summarize()
\* collapses to its name, has Value-typed children only.
C27_CollapsedAreLeafUnions ==
    /\ \A a \in Subtrees(stack) :
           (a.type.kind = "Choices" /\ a.max_depth = 2) =>
               \A i \in 1..Len(a.type.args) : a.type.args[i].type.kind = "Value"
    /\ (shown # Idle /\ shown.op = "summarize" /\ shown.text = Newest.value.name
        /\ Newest.type.kind = "Choices") =>
           \A i \in 1..Len(Newest.type.args) :
               Newest.type.args[i].type.kind = "Value"

\* C27: a Choices has max_depth 2 exactly when no Choices is below it: its
\* children have max_depth 1 and are leaves or Groups (of Groups) of leaves,
\* possibly none; summarize() collapses it to its name, the leaves of its
\* Group alternatives included.
C27_CollapsedHoldNoChoices ==
    /\ \A a \in Subtrees(stack) :
           a.type.kind = "Choices" =>
               /\ a.max_depth = 2 <=>
                      \A d \in Descendants(a) : d.type.kind # "Choices"
               /\ a.max_depth = 2 =>
                      \A i \in 1..Len(a.type.args) : a.type.args[i].max_depth = 1
    /\ (shown # Idle /\ shown.op = "summarize" /\ Newest.type.kind = "Choices"
        /\ Newest.max_depth = 2) =>
           shown.text = Newest.value.name

\* a Choices of max_depth 2 with a Group alternative that holds a leaf,
\* summarized as its name
C27_Witness ==
    /\ shown # Idle
    /\ shown.op = "summarize"
    /\ Newest.type.kind = "Choices"
    /\ Newest.max_depth = 2
    /\ \E i \in 1..Len(Newest.type.args) :
           /\ Newest.type.args[i].type.kind = "Group"
           /\ \E d \in Descendants(Newest.type.args[i]) : d.type.kind = "Value"
    /\ shown.text = Newest.value.name
RECURSIVE ChoicesOnPath(_)
\* the largest number of Choices-typed Args on a path from arg, itself
\* included, down to a leaf or to a composite without children
ChoicesOnPath(arg) ==
    (IF arg.type.kind = "Choices" THEN 1 ELSE 0)
    + (IF arg.type.args = <<>> THEN 0
       ELSE MaxOf({ChoicesOnPath(arg.type.args[i]) : i \in 1..Len(arg.type.args)}))

\* C28: the max_depth of every Arg built with Arg::new and Arg::with_type
\* is 1 plus the largest number of Choices on a path from it down to a
\* terminal node; Groups count for nothing, so max_depth is at least 1 and
\* Groups of Groups stay at 1.
C28_DepthCountsChoices ==
    \A a \in Subtrees(stack) :
        /\ a.max_depth = 1 + ChoicesOnPath(a)
        /\ a.max_depth >= 1
        /\ (\A d \in Descendants(a) \cup {a} : d.type.kind # "Choices") =>
               a.max_depth = 1

\* a Group of a Group and of a Choices of a Choices: the deeper path
\* counts, the Groups do not
C28_Witness ==
    /\ stack # <<>>
    /\ Newest.type.kind = "Group"
    /\ Newest.max_depth = 3
    /\ \E i \in 1..Len(Newest.type.args) :
           /\ Newest.type.args[i].type.kind = "Choices"
           /\ Newest.type.args[i].max_depth = 3
    /\ \E i \in 1..Len(Newest.type.args) :
           /\ Newest.type.args[i].type.kind = "Group"
           /\ Newest.type.args[i].max_depth = 1
\* a Command as Command::new leaves it
IsFresh(c) == c.arguments = <<>> /\ c.subcommands = None

\* the step appended a vector to the arguments of the newest Command, or
\* gave it the empty subcommand list, and nothing else changed
NewestCommandSet ==
    /\ Len(command') = Len(command)
    /\ Prefix(command', Len(command) - 1) = Prefix(command, Len(command) - 1)
    /\ command'[Len(command)].value = NewestCommand.value
    /\ \/ /\ command'[Len(command)].subcommands = NewestCommand.subcommands
          /\ \E arguments \in ArgVectors :
                 command'[Len(command)].arguments =
                     NewestCommand.arguments \o arguments
       \/ /\ command'[Len(command)].arguments = NewestCommand.arguments
          /\ command'[Len(command)].subcommands = Some(<<>>)

\* the step handed the k newest Commands to the one created before them,
\* in the place of the subcommands it had, and nothing else changed
SubcommandsSet ==
    \E k \in 1..(Len(command) - 1) :
        /\ Len(command') = Len(command) - k
        /\ Prefix(command', Len(command') - 1) = Prefix(command, Len(command') - 1)
        /\ command'[Len(command')].value = command[Len(command')].value
        /\ command'[Len(command')].arguments = command[Len(command')].arguments
        /\ command'[Len(command')].subcommands = Some(Suffix(command, Len(command')))

\* the step created a Command with its name and description, without
\* arguments and without subcommands
CommandCreated ==
    /\ Len(command') = Len(command) + 1
    /\ Prefix(command', Len(command)) = command
    /\ IsFresh(command'[Len(command')])
    /\ command'[Len(command')].value \in Labels

\* C29: set_arguments appends its vector to the arguments, in call order;
\* set_subcommands puts its vector in the place of the subcommands, absent
\* until then; neither changes the name, the description or the other
\* field; a Command fresh from Command::new has no arguments and no
\* subcommands, its summarize() is its name and its details() are empty.
C29_CommandFrame ==
    /\ []((shown # Idle /\ shown.op = "command_summarize" /\ IsFresh(NewestCommand))
              => shown.text = NewestCommand.value.name)
    /\ []((shown # Idle /\ shown.op = "command_details" /\ IsFresh(NewestCommand))
              => shown.text = <<>>)
    /\ [][CommandCreated \/ NewestCommandSet \/ SubcommandsSet]_command

\* a Command after two set_arguments calls with different vectors and two
\* set_subcommands calls, the later with a Command
C29_Witness ==
    /\ pc = "command"
    /\ command # <<>>
    /\ Len(NewestCommand.arguments) = 2
    /\ NewestCommand.arguments[1] = Arg_new(<<"a">>, None)
    /\ NewestCommand.arguments[2].type.kind = "Group"
    /\ NewestCommand.subcommands # None
    /\ NewestCommand.subcommands[1] # <<>>
\* t is a struct without fields
IsUnitStruct(t) == IsStruct(t) /\ Decl(t).variants[1].fields = <<>>

\* the first token of the arguments selects a variant of enum t that has no
\* fields
SelectsUnitVariant(t, values) ==
    /\ IsEnum(t)
    /\ values # <<>>
    /\ MatchingVariants(t, Head(values)) # {}
    /\ Decl(t).variants[FirstOf(MatchingVariants(t, Head(values)))].fields = <<>>

\* C30: try_parse of a unit struct succeeds on every token sequence, takes
\* no token and returns the whole input as remainder; parse of it succeeds
\* on the empty sequence only and fails with TooManyArguments on the
\* others; a unit variant of an enum takes its discriminant token and
\* nothing more.
C30_UnitTakesNothing ==
    /\ (pc = "try_parsed" /\ IsUnitStruct(ty)) =>
           /\ outcome.err = "Ok"
           /\ outcome.rest = args
           /\ outcome.log = <<>>
    /\ (pc = "parsed" /\ IsUnitStruct(ty)) =>
           /\ args = <<>> => outcome.err = "Ok"
           /\ args # <<>> => outcome.err = "TooManyArguments"
    /\ (pc = "try_parsed" /\ SelectsUnitVariant(ty, args)) =>
           /\ outcome.err = "Ok"
           /\ outcome.rest = Tail(args)
           /\ outcome.log = <<Head(args)>>
           /\ outcome.value.fields = <<>>

\* a unit struct parsed from several tokens: try_parse leaves them all
C30_Witness ==
    /\ pc = "try_parsed"
    /\ IsUnitStruct(ty)
    /\ Len(args) >= 2
    /\ outcome.err = "Ok"
    /\ outcome.rest = args
====
